---------------------------- MODULE Spec2Model ----------------------------
(***************************************************************************)
(* A model of uspsimb.py, the USPS Intelligent Mail Barcode encoder:       *)
(* the record constructor and its validation, from_t_and_r, the six        *)
(* stages of encode, the lookup-table builder and the command-line loop.   *)
(*                                                                         *)
(* Strings are sequences of one-character strings.  Python's unbounded     *)
(* integers are modelled, where they can pass 2^31, as little-endian       *)
(* sequences of base-256 limbs without leading zero limbs ("big" values);  *)
(* all other integers are plain.                                           *)
(***************************************************************************)
EXTENDS Integers, Sequences, FiniteSets, TLC

VARIABLES
    pc,           \* position of the running program
    barcode_id, st_id, mailer_id, serial_num, deliv_zip,  \* constructor arguments
    imb,          \* the constructed IntelligentMailBarcode, or NoRecord
    err,          \* message of the exception raised, "" when none
    imb2,         \* the record from_t_and_r(str(imb)) returns, or NoRecord
    err2,         \* exception raised by from_t_and_r, "" when none
    rc_val,       \* encode: the composed payload (big)
    fcs,          \* encode: the frame check sequence
    cw,           \* encode: the codewords cw_a .. cw_j
    char_list,    \* encode: the ten 13-bit characters
    bar_table,    \* encode: the parsed bar construction table
    enc_str,      \* encode: the returned string
    flip_bit,     \* FCS run: the payload bit that is flipped
    fcs_flipped,  \* FCS run: the FCS of the payload with flip_bit flipped
    table_type, length, count, lut, lut_lower, lut_upper,  \* _lookup_table locals
    argv,         \* command line: the RoutingTracking arguments
    arg_idx,      \* command line: number of arguments processed
    built,        \* command line: the records built, in order
    printed       \* command line: the lines printed, in order

vars == << pc, barcode_id, st_id, mailer_id, serial_num, deliv_zip, imb, err,
           imb2, err2, rc_val, fcs, cw, char_list, bar_table, enc_str,
           flip_bit, fcs_flipped, table_type, length, count, lut, lut_lower,
           lut_upper, argv, arg_idx, built, printed >>

-----------------------------------------------------------------------------
(* Strings *)

DigitChars == {"0", "1", "2", "3", "4", "5", "6", "7", "8", "9"}

\* int(c) of one decimal character
DigitVal(c) ==
    CASE c = "0" -> 0 [] c = "1" -> 1 [] c = "2" -> 2 [] c = "3" -> 3
      [] c = "4" -> 4 [] c = "5" -> 5 [] c = "6" -> 6 [] c = "7" -> 7
      [] c = "8" -> 8 [] c = "9" -> 9

\* str.isdigit(): at least one character and every character a digit
isdigit(s) == Len(s) > 0 /\ \A i \in 1..Len(s) : s[i] \in DigitChars

\* int(s) of a digit string short enough for a plain integer
RECURSIVE StrInt(_)
StrInt(s) ==
    IF s = <<>> THEN 0
    ELSE 10 * StrInt(SubSeq(s, 1, Len(s) - 1)) + DigitVal(s[Len(s)])

\* e, with v evaluated first: a loop's steps are carried out in order
Eager(v, e) == IF v = v THEN e ELSE e

\* for i in range(lo, hi + 1): st = Body(st, i) -- the passes in order, the
\* range halved so that the evaluation stays shallow
RECURSIVE ForRange(_, _, _, _)
ForRange(Body(_, _), st, lo, hi) ==
    IF lo > hi THEN st
    ELSE IF lo = hi THEN Body(st, lo)
    ELSE LET mid == (lo + hi) \div 2
             left == ForRange(Body, st, lo, mid)
         IN  Eager(left, ForRange(Body, left, mid + 1, hi))

Min(a, b) == IF a < b THEN a ELSE b

\* the Python slice s[a:b] (0-based, clipped to the string)
Slice(s, a, b) == SubSeq(s, Min(a, Len(s)) + 1, Min(b, Len(s)))

\* the Python slice s[a:]
SliceFrom(s, a) == SubSeq(s, Min(a, Len(s)) + 1, Len(s))

-----------------------------------------------------------------------------
(* Unbounded integers *)

\* 1 << i
Pow2(i) == 2 ^ i

\* one limb holds one byte, the unit the FCS stage reads the payload in
Limb == Pow2(8)

BigZero == <<>>

RECURSIVE Normalize(_)
Normalize(n) ==
    IF n # <<>> /\ n[Len(n)] = 0 THEN Normalize(SubSeq(n, 1, Len(n) - 1)) ELSE n

\* n * m + c for big n and plain m >= 1, c >= 0
RECURSIVE MulAdd(_, _, _)
MulAdd(n, m, c) ==
    IF n = <<>>
    THEN IF c = 0 THEN <<>> ELSE <<c % Limb>> \o MulAdd(<<>>, m, c \div Limb)
    ELSE LET v == n[1] * m + c
         IN  <<v % Limb>> \o MulAdd(Tail(n), m, v \div Limb)

\* int(s) of a digit string of any length, as a big value
RECURSIVE BigInt(_)
BigInt(s) ==
    IF s = <<>> THEN BigZero
    ELSE MulAdd(BigInt(SubSeq(s, 1, Len(s) - 1)), 10, DigitVal(s[Len(s)]))

RECURSIVE DivStep(_, _, _, _, _)
DivStep(n, d, i, r, q) ==
    IF i = 0 THEN [quot |-> Normalize(q), rem |-> r]
    ELSE LET v == r * Limb + n[i]
         IN  DivStep(n, d, i - 1, v % d, <<v \div d>> \o q)

\* divmod(n, d) for big n and plain d
divmod(n, d) == DivStep(n, d, Len(n), 0, <<>>)

\* the plain value of a big value that fits
RECURSIVE BigToInt(_)
BigToInt(n) == IF n = <<>> THEN 0 ELSE n[1] + Limb * BigToInt(Tail(n))

\* (n >> 8 * k) & 0xff
ByteAt(n, k) == IF k + 1 <= Len(n) THEN n[k + 1] ELSE 0

\* n >> 8 * k
ShiftRightBytes(n, k) == SubSeq(n, Min(k, Len(n)) + 1, Len(n))

\* bit operations on plain naturals
RECURSIVE Xor(_, _)
Xor(a, b) ==
    IF a = 0 THEN b
    ELSE IF b = 0 THEN a
    ELSE (((a % 2) + (b % 2)) % 2) + 2 * Xor(a \div 2, b \div 2)

\* whether n & (1 << i) is non-zero
BitSet(n, i) == (n \div Pow2(i)) % 2 = 1

\* bin(n).count('1')
RECURSIVE PopCount(_)
PopCount(n) == IF n = 0 THEN 0 ELSE (n % 2) + PopCount(n \div 2)

-----------------------------------------------------------------------------
(* class IntelligentMailBarcode *)

NoRecord ==
    [barcode_id |-> <<>>, service_type_id |-> <<>>, mailer_id |-> <<>>,
     serial_num |-> <<>>, deliv_zip |-> <<>>]

\* a length test that lets every length up to 11 pass
DelivZipLenOk_UpTo11(z) == Len(z) <= 11

\* the last assertion of __init__: dzip_len is 0, 5, 9 or 11
DelivZipLenOk(z) == Len(z) = 0 \/ Len(z) = 5 \/ Len(z) = 9 \/ Len(z) = 11

\* The assertions of __init__ in order: the message of the first that fails,
\* "" when all pass.
InitAssertions(b, s, m, n, z) ==
    IF ~isdigit(b) THEN "AssertionError"
    ELSE IF ~isdigit(s) THEN "AssertionError"
    ELSE IF ~isdigit(m) THEN "AssertionError"
    ELSE IF ~isdigit(n) THEN "AssertionError"
    ELSE IF ~(isdigit(z) \/ Len(z) = 0) THEN "AssertionError"
    ELSE IF ~(0 <= StrInt(b) % 10 /\ StrInt(b) % 10 <= 4)
        THEN "barcode id must end in 0-4 (and be 2-digit)"
    ELSE IF ~(0 <= StrInt(b) /\ StrInt(b) <= 99)
        THEN "barcode id must be 2-digit (and end in 0-4)"
    ELSE IF ~(0 <= StrInt(s) /\ StrInt(s) <= 999)
        THEN "Service Type ID must be 3-digit"
    ELSE IF ~(Len(m) = 6 \/ Len(m) = 9) THEN "Mailer id must be 6 or 9 digits"
    ELSE IF Len(m) = 9 /\ ~(900000000 <= StrInt(m) /\ StrInt(m) <= 999999999)
        THEN "Invalid mailer_id range"
    ELSE IF Len(m) # 9 /\ ~(0 <= StrInt(m) /\ StrInt(m) <= 899999)
        THEN "Invalid mailer_id range"
    ELSE IF ~(Len(n) = 6 \/ Len(n) = 9) THEN "Serial num must be 6 or 9 digits"
    ELSE IF Len(n) = 9 /\ Len(m) # 6
        THEN "mailer id must be 6-digit when serial num is 9-digit"
    ELSE IF Len(n) # 9 /\ Len(m) # 9
        THEN "mailer id must be 9-digit when serial num is 6-digit"
    ELSE IF ~DelivZipLenOk(z) THEN "AssertionError"
    ELSE ""

\* IntelligentMailBarcode(b, s, m, n, z): the object, or the exception raised
IntelligentMailBarcode(b, s, m, n, z) ==
    LET e == InitAssertions(b, s, m, n, z)
    IN  IF e = ""
        THEN [rec |-> [barcode_id |-> b, service_type_id |-> s, mailer_id |-> m,
                       serial_num |-> n, deliv_zip |-> z],
              err |-> ""]
        ELSE [rec |-> NoRecord, err |-> e]

tracking(r) == r.barcode_id \o r.service_type_id \o r.mailer_id \o r.serial_num

routing(r) == r.deliv_zip

\* __str__
str(r) == tracking(r) \o routing(r)

from_t_and_r(tracking_routing) ==
    LET trk == Slice(tracking_routing, 0, 20)
        rtg == SliceFrom(tracking_routing, 20)
        bar_id == Slice(trk, 0, 2)
        st == Slice(trk, 2, 5)
    IN  IF Len(trk) <= 5 THEN [rec |-> NoRecord, err |-> "IndexError"]
        ELSE IF trk[6] = "9"
        THEN IntelligentMailBarcode(bar_id, st, Slice(trk, 5, 14),
                                    Slice(trk, 14, 20), rtg)
        ELSE IntelligentMailBarcode(bar_id, st, Slice(trk, 5, 11),
                                    Slice(trk, 11, 20), rtg)

-----------------------------------------------------------------------------
(* _lookup_table *)

CountRange == 8192
Lut5Len == 1287
Lut2Len == 78

RECURSIVE ReverseLoop(_, _, _)
ReverseLoop(rev, ushort, n) ==
    IF n = 0 THEN rev
    ELSE ReverseLoop(2 * rev + (ushort % 2), ushort \div 2, n - 1)

\* the reversal with one pass too few
reverse_unsigned_short_15(ushort) == ReverseLoop(0, ushort, 15)

reverse_unsigned_short(ushort) == ReverseLoop(0, ushort, 16)

\* lut[i] = v on an array: a negative index counts from the end, an index
\* outside the array raises IndexError
SetItem(st, i, v) ==
    LET j == IF i < 0 THEN i + Len(st.lut) ELSE i
    IN  IF st.err # "" THEN st
        ELSE IF j < 0 \/ j >= Len(st.lut) THEN [st EXCEPT !.err = "IndexError"]
        ELSE [st EXCEPT !.lut[j + 1] = v]

\* the candidate test of the loop body: False where the body hits `continue`
LutKeeps(ttype, cnt) ==
    /\ PopCount(cnt) = ttype
    /\ ~(reverse_unsigned_short(cnt) \div 8 < cnt)

\* the body with the forward cursor advanced once, not twice, per pair
LutBody_OneStep(st, ttype, cnt) ==
    LET rev == reverse_unsigned_short(cnt) \div 8
    IN  IF st.err # "" \/ ~LutKeeps(ttype, cnt) THEN st
        ELSE IF cnt = rev
        THEN [SetItem(st, st.lut_upper, cnt) EXCEPT !.lut_upper = @ - 1]
        ELSE [SetItem(SetItem(st, st.lut_lower, cnt), st.lut_lower + 1, rev)
                EXCEPT !.lut_lower = @ + 1]

\* one pass of the body of `for count in range(8192)`
LutBody(st, ttype, cnt) ==
    LET rev == reverse_unsigned_short(cnt) \div 8
    IN  IF st.err # "" \/ ~LutKeeps(ttype, cnt) THEN st
        ELSE IF cnt = rev
        THEN [SetItem(st, st.lut_upper, cnt) EXCEPT !.lut_upper = @ - 1]
        ELSE [SetItem(SetItem(st, st.lut_lower, cnt), st.lut_lower + 1, rev)
                EXCEPT !.lut_lower = @ + 2]

LutStart(len) ==
    [lut |-> [i \in 1..len |-> 0], lut_lower |-> 0, lut_upper |-> len - 1,
     err |-> ""]

\* for count in range(8192)
lookup_table(ttype, len) ==
    ForRange(LAMBDA st, cnt : LutBody(st, ttype, cnt), LutStart(len),
             0, CountRange - 1).lut

\* the two tables encode builds on every call
lut5 == lookup_table(5, Lut5Len)
lut2 == lookup_table(2, Lut2Len)

-----------------------------------------------------------------------------
(* BAR_CONSTRUCTION_TABLE and _bar_construction_table *)

\* each element is the string of the source, character by character
BAR_CONSTRUCTION_TABLE ==
    <<
       <<"1"," ","H"," ","2"," ","E"," ","3">>, <<"2"," ","B"," ","1","0"," ","A"," ","0">>,
       <<"3"," ","J"," ","1","2"," ","C"," ","8">>, <<"4"," ","F"," ","5"," ","G"," ","1","1">>,
       <<"5"," ","I"," ","9"," ","D"," ","1">>, <<"6"," ","A"," ","1"," ","F"," ","1","2">>,
       <<"7"," ","C"," ","5"," ","B"," ","8">>, <<"8"," ","E"," ","4"," ","J"," ","1","1">>,
       <<"9"," ","G"," ","3"," ","I"," ","1","0">>, <<"1","0"," ","D"," ","9"," ","H"," ","6">>,
       <<"1","1"," ","F"," ","1","1"," ","B"," ","4">>, <<"1","2"," ","I"," ","5"," ","C"," ","1","2">>,
       <<"1","3"," ","J"," ","1","0"," ","A"," ","2">>, <<"1","4"," ","H"," ","1"," ","G"," ","7">>,
       <<"1","5"," ","D"," ","6"," ","E"," ","9">>, <<"1","6"," ","A"," ","3"," ","I"," ","6">>,
       <<"1","7"," ","G"," ","4"," ","C"," ","7">>, <<"1","8"," ","B"," ","1"," ","J"," ","9">>,
       <<"1","9"," ","H"," ","1","0"," ","F"," ","2">>, <<"2","0"," ","E"," ","0"," ","D"," ","8">>,
       <<"2","1"," ","G"," ","2"," ","A"," ","4">>, <<"2","2"," ","I"," ","1","1"," ","B"," ","0">>,
       <<"2","3"," ","J"," ","8"," ","D"," ","1","2">>, <<"2","4"," ","C"," ","6"," ","H"," ","7">>,
       <<"2","5"," ","F"," ","1"," ","E"," ","1","0">>, <<"2","6"," ","B"," ","1","2"," ","G"," ","9">>,
       <<"2","7"," ","H"," ","3"," ","I"," ","0">>, <<"2","8"," ","F"," ","8"," ","J"," ","7">>,
       <<"2","9"," ","E"," ","6"," ","C"," ","1","0">>, <<"3","0"," ","D"," ","4"," ","A"," ","5">>,
       <<"3","1"," ","I"," ","4"," ","F"," ","7">>, <<"3","2"," ","H"," ","1","1"," ","B"," ","9">>,
       <<"3","3"," ","G"," ","0"," ","J"," ","6">>, <<"3","4"," ","A"," ","6"," ","E"," ","8">>,
       <<"3","5"," ","C"," ","1"," ","D"," ","2">>, <<"3","6"," ","F"," ","9"," ","I"," ","1","2">>,
       <<"3","7"," ","E"," ","1","1"," ","G"," ","1">>, <<"3","8"," ","J"," ","5"," ","H"," ","4">>,
       <<"3","9"," ","D"," ","3"," ","B"," ","2">>, <<"4","0"," ","A"," ","7"," ","C"," ","0">>,
       <<"4","1"," ","B"," ","3"," ","E"," ","1">>, <<"4","2"," ","G"," ","1","0"," ","D"," ","5">>,
       <<"4","3"," ","I"," ","7"," ","J"," ","4">>, <<"4","4"," ","C"," ","1","1"," ","F"," ","6">>,
       <<"4","5"," ","A"," ","8"," ","H"," ","1","2">>, <<"4","6"," ","E"," ","2"," ","I"," ","1">>,
       <<"4","7"," ","F"," ","1","0"," ","D"," ","0">>, <<"4","8"," ","J"," ","3"," ","A"," ","9">>,
       <<"4","9"," ","G"," ","5"," ","C"," ","4">>, <<"5","0"," ","H"," ","8"," ","B"," ","7">>,
       <<"5","1"," ","F"," ","0"," ","E"," ","5">>, <<"5","2"," ","C"," ","3"," ","A"," ","1","0">>,
       <<"5","3"," ","G"," ","1","2"," ","J"," ","2">>, <<"5","4"," ","D"," ","1","1"," ","B"," ","6">>,
       <<"5","5"," ","I"," ","8"," ","H"," ","9">>, <<"5","6"," ","F"," ","4"," ","A"," ","1","1">>,
       <<"5","7"," ","B"," ","5"," ","C"," ","2">>, <<"5","8"," ","J"," ","1"," ","E"," ","1","2">>,
       <<"5","9"," ","I"," ","3"," ","G"," ","6">>, <<"6","0"," ","H"," ","0"," ","D"," ","7">>,
       <<"6","1"," ","E"," ","7"," ","H"," ","5">>, <<"6","2"," ","A"," ","1","2"," ","B"," ","1","1">>,
       <<"6","3"," ","C"," ","9"," ","J"," ","0">>, <<"6","4"," ","G"," ","8"," ","F"," ","3">>,
       <<"6","5"," ","D"," ","1","0"," ","I"," ","2">>
    >>

\* s.split(' '): the maximal runs between single spaces
RECURSIVE SplitLoop(_, _, _)
SplitLoop(s, cur, acc) ==
    IF s = <<>> THEN Append(acc, cur)
    ELSE IF Head(s) = " " THEN SplitLoop(Tail(s), <<>>, Append(acc, cur))
    ELSE SplitLoop(Tail(s), Append(cur, Head(s)), acc)

split(s) == SplitLoop(s, <<>>, <<>>)

\* a BarMap whose ascender bit is read from the descender's column
BarMap_SameBit(element) ==
    LET f == split(element)
    IN  [desc_char |-> f[2], desc_bit |-> f[3], asc_char |-> f[4], asc_bit |-> f[3]]

\* one BarMap namedtuple from one element
BarMap(element) ==
    LET f == split(element)
    IN  [desc_char |-> f[2], desc_bit |-> f[3], asc_char |-> f[4], asc_bit |-> f[5]]

bar_construction_table ==
    [i \in 1..Len(BAR_CONSTRUCTION_TABLE) |-> BarMap(BAR_CONSTRUCTION_TABLE[i])]

\* ord(c) - ord('A') for the one-letter string c
CharIndex(c) ==
    CASE c = <<"A">> -> 0 [] c = <<"B">> -> 1 [] c = <<"C">> -> 2 [] c = <<"D">> -> 3
      [] c = <<"E">> -> 4 [] c = <<"F">> -> 5 [] c = <<"G">> -> 6 [] c = <<"H">> -> 7
      [] c = <<"I">> -> 8 [] c = <<"J">> -> 9

-----------------------------------------------------------------------------
(* encode *)

GenPoly == 3893
FcsInit == 2047
FcsMask == 2047
FcsTopBit == 10
RadixJ == 636
Radix == 1365
MaxCwA == 658
CwAOffset == 659
InvertMask == 8191
NumBars == 65

\* the routing code with the 5-digit offset of 1 left out
RoutingCode_NoOffset(r) ==
    LET n == Len(routing(r))
    IN  IF n = 0 THEN BigZero
        ELSE IF n = 5 THEN MulAdd(BigInt(routing(r)), 1, 0)
        ELSE IF n = 9 THEN MulAdd(BigInt(routing(r)), 1, 100001)
        ELSE MulAdd(BigInt(routing(r)), 1, 1000100001)

\* 1. Convert data fields to binary: the routing code (__init__ leaves no
\* length but 0, 5, 9 and 11)
RoutingCode(r) ==
    LET n == Len(routing(r))
    IN  IF n = 0 THEN BigZero
        ELSE IF n = 5 THEN MulAdd(BigInt(routing(r)), 1, 1)
        ELSE IF n = 9 THEN MulAdd(BigInt(routing(r)), 1, 100001)
        ELSE MulAdd(BigInt(routing(r)), 1, 1000100001)

\* for _ in imb.tracking[2:]
AppendDigits(rc, digits) ==
    ForRange(LAMBDA acc, i : MulAdd(acc, 10, DigitVal(digits[i])), rc,
             1, Len(digits))

\* 1. Convert data fields to binary: rc_val
Compose(r) ==
    LET t == tracking(r)
        rc1 == MulAdd(RoutingCode(r), 10, DigitVal(t[1]))
        rc2 == MulAdd(rc1, 5, DigitVal(t[2]))
    IN  AppendDigits(rc2, SliceFrom(t, 2))

\* one pass of the bit loop: the new fcs
FcsShift(f, data) ==
    IF BitSet(Xor(f, data), FcsTopBit)
    THEN Xor(f * 2, GenPoly) % (FcsMask + 1)
    ELSE (f * 2) % (FcsMask + 1)

\* n passes of the bit loop, data shifted left after each
RECURSIVE FcsBits(_, _, _)
FcsBits(f, data, n) ==
    IF n = 0 THEN f
    ELSE LET g == FcsShift(f, data) IN Eager(g, FcsBits(g, data * 2, n - 1))

\* the byte loop with each byte shifted left by 2, not 3
FcsBytes_Shift2(f, rc) ==
    ForRange(LAMBDA g, i : FcsBits(g, ByteAt(rc, 12 - i) * 4, 8), f, 1, 12)

\* for _ in range(1, 13)
FcsBytes(f, rc) ==
    ForRange(LAMBDA g, i : FcsBits(g, ByteAt(rc, 12 - i) * 8, 8), f, 1, 12)

\* 2. 11-bit CRC on binary
Fcs(rc) ==
    FcsBytes(FcsBits(FcsInit, BigToInt(ShiftRightBytes(rc, 12)) * 32, 6), rc)

\* eight successive divmod by 1365 after the one by 636: cw_j first
RECURSIVE DivChain(_, _, _)
DivChain(rc, n, acc) ==
    IF n = 0 THEN [rest |-> rc, cws |-> acc]
    ELSE LET d == divmod(rc, Radix)
         IN  DivChain(d.quot, n - 1, <<d.rem>> \o acc)

\* 3. codeword generation: <<cw_a, ..., cw_j>>, or the assertion's failure
Codewords(rc) ==
    LET dj == divmod(rc, RadixJ)
        ch == DivChain(dj.quot, 8, <<dj.rem>>)
    IN  IF Len(ch.rest) <= 2 /\ BigToInt(ch.rest) <= MaxCwA
        THEN [cw |-> <<BigToInt(ch.rest)>> \o ch.cws, err |-> ""]
        ELSE [cw |-> <<>>, err |-> "Codeword conversion error during encoding"]

\* 4. codeword modification
Modify(c, f) ==
    [c EXCEPT ![10] = @ * 2,
              ![1] = IF BitSet(f, FcsTopBit) THEN @ + CwAOffset ELSE @]

\* 5. the lookup loop: the character of codeword i, given the previous one
\*    (cw_char keeps its last value, or is still unbound, when the codeword
\*    is above 1364)
RECURSIVE LookupLoop(_, _, _)
LookupLoop(c, i, acc) ==
    IF i > Len(c) THEN [chars |-> acc, err |-> ""]
    ELSE IF c[i] <= Lut5Len - 1
    THEN LookupLoop(c, i + 1, Append(acc, lut5[c[i] + 1]))
    ELSE IF c[i] <= Lut5Len + Lut2Len - 1
    THEN LookupLoop(c, i + 1, Append(acc, lut2[c[i] - Lut5Len + 1]))
    ELSE IF acc = <<>> THEN [chars |-> <<>>, err |-> "UnboundLocalError"]
    ELSE LookupLoop(c, i + 1, Append(acc, acc[Len(acc)]))

\* 5. the inversion loop `for i in range(10)` from pass i on
RECURSIVE InvertLoop(_, _, _)
InvertLoop(chars, f, i) ==
    IF i > 9 THEN chars
    ELSE IF BitSet(f, i)
    THEN InvertLoop([chars EXCEPT ![i + 1] = Xor(@, InvertMask)], f, i + 1)
    ELSE InvertLoop(chars, f, i + 1)

Invert(chars, f) == InvertLoop(chars, f, 0)

\* 5. codeword to 'character' conversion
Characters(c, f) ==
    LET l == LookupLoop(c, 1, <<>>)
    IN  IF l.err # "" THEN l ELSE [chars |-> Invert(l.chars, f), err |-> ""]

\* 6. the symbol of one bar
Bar(chars, bar_map) ==
    LET asc == BitSet(chars[CharIndex(bar_map.asc_char) + 1], StrInt(bar_map.asc_bit))
        desc == BitSet(chars[CharIndex(bar_map.desc_char) + 1], StrInt(bar_map.desc_bit))
    IN  IF asc /\ desc THEN "F"
        ELSE IF asc THEN "A"
        ELSE IF desc THEN "D"
        ELSE "T"

\* the bar loop one pass short
Bars_Short(chars, table) ==
    ForRange(LAMBDA out, i : Append(out, Bar(chars, table[i + 1])), <<>>,
             0, NumBars - 2)

\* 6. character to barcode conversion: for i in range(65)
Bars(chars, table) ==
    ForRange(LAMBDA out, i : Append(out, Bar(chars, table[i + 1])), <<>>,
             0, NumBars - 1)

\* encode(imb) as one call: the string, or the exception raised
encode(r) ==
    LET rc == Compose(r)
        f == Fcs(rc)
        c == Codewords(rc)
        ch == Characters(Modify(c.cw, f), f)
    IN  IF c.err # "" THEN [out |-> <<>>, err |-> c.err]
        ELSE IF ch.err # "" THEN [out |-> <<>>, err |-> ch.err]
        ELSE LET chars == ch.chars
             IN  Eager(chars, [out |-> Bars(chars, bar_construction_table),
                               err |-> ""])

-----------------------------------------------------------------------------
(* The runs that are checked *)

Rep(c, n) == [i \in 1..n |-> c]

Unset ==
    /\ imb = NoRecord /\ err = "" /\ imb2 = NoRecord /\ err2 = ""
    /\ rc_val = BigZero /\ fcs = 0 /\ cw = <<>> /\ char_list = <<>>
    /\ bar_table = <<>> /\ enc_str = <<>>

NoFields ==
    /\ barcode_id = <<>> /\ st_id = <<>> /\ mailer_id = <<>>
    /\ serial_num = <<>> /\ deliv_zip = <<>>

NoFcsRun == flip_bit = 0 /\ fcs_flipped = 0

NoTable ==
    /\ table_type = 0 /\ length = 0 /\ count = 0 /\ lut = <<>>
    /\ lut_lower = 0 /\ lut_upper = 0

NoMain == argv = <<>> /\ arg_idx = 0 /\ built = <<>> /\ printed = <<>>

fieldVars == << barcode_id, st_id, mailer_id, serial_num, deliv_zip >>
fcsRunVars == << flip_bit, fcs_flipped >>
tableVars == << table_type, length, count, lut, lut_lower, lut_upper >>
mainVars == << argv, arg_idx, built, printed >>

(* Arguments handed to the constructor: accepted ones, and ones that break
   each rule of __init__. *)
BarcodeIds ==
    { <<"0", "0">>, <<"9", "4">>, <<"0", "5">>, <<"1", "0", "0">>, <<"4">>,
      <<"0", "9", "4">>, <<>>, <<"9", "x">> }

StIds ==
    { Rep("0", 3), Rep("9", 3), <<"1", "0", "0", "0">>, <<"4", "0">>, <<>>,
      <<"7", "x">> }

MailerIds ==
    { Rep("0", 6), <<"8">> \o Rep("9", 5), <<"9">> \o Rep("0", 5),
      <<"9">> \o Rep("0", 8), Rep("9", 9), <<"8">> \o Rep("9", 8),
      Rep("1", 7), <<>>, <<"1", "2", "x", "4", "5", "6">> }

SerialNums ==
    { Rep("0", 6), Rep("9", 6), Rep("0", 9), Rep("9", 9), Rep("1", 7), <<>>,
      <<"1", "2", "x", "4", "5", "6">> }

DelivZips ==
    { <<>>, Rep("0", 5), Rep("9", 5), Rep("9", 9), Rep("0", 11), Rep("9", 11),
      Rep("1", 7), <<"1", "2", "3", "4", "x">> }

Init ==
    /\ pc = "start"
    /\ barcode_id \in BarcodeIds
    /\ st_id \in StIds
    /\ mailer_id \in MailerIds
    /\ serial_num \in SerialNums
    /\ deliv_zip \in DelivZips
    /\ Unset /\ NoFcsRun /\ NoTable /\ NoMain

\* IntelligentMailBarcode(barcode_id, st_id, mailer_id, serial_num, deliv_zip)
Construct ==
    /\ pc = "start"
    /\ LET r == IntelligentMailBarcode(barcode_id, st_id, mailer_id,
                                       serial_num, deliv_zip)
       IN  /\ imb' = r.rec
           /\ err' = r.err
           /\ pc' = IF r.err = "" THEN "constructed" ELSE "error"
    /\ UNCHANGED << imb2, err2, rc_val, fcs, cw, char_list, bar_table, enc_str,
                    fieldVars, fcsRunVars, tableVars, mainVars >>

\* from_t_and_r(str(imb)), its exception caught by the caller
RoundTrip ==
    /\ pc = "constructed"
    /\ LET r == from_t_and_r(str(imb))
       IN  imb2' = r.rec /\ err2' = r.err
    /\ pc' = "round_trip"
    /\ UNCHANGED << imb, err, rc_val, fcs, cw, char_list, bar_table, enc_str,
                    fieldVars, fcsRunVars, tableVars, mainVars >>

\* encode(imb), stage 1
EncCompose ==
    /\ pc = "constructed"
    /\ rc_val' = Compose(imb)
    /\ pc' = "composed"
    /\ UNCHANGED << imb, err, imb2, err2, fcs, cw, char_list, bar_table, enc_str,
                    fieldVars, fcsRunVars, tableVars, mainVars >>

\* encode(imb), stage 2
EncFcs ==
    /\ pc = "composed"
    /\ fcs' = Fcs(rc_val)
    /\ pc' = "fcs"
    /\ UNCHANGED << imb, err, imb2, err2, rc_val, cw, char_list, bar_table,
                    enc_str, fieldVars, fcsRunVars, tableVars, mainVars >>

\* encode(imb), stage 3
EncCodewords ==
    /\ pc = "fcs"
    /\ LET c == Codewords(rc_val)
       IN  /\ cw' = c.cw
           /\ err' = c.err
           /\ pc' = IF c.err = "" THEN "codewords" ELSE "error"
    /\ UNCHANGED << imb, imb2, err2, rc_val, fcs, char_list, bar_table, enc_str,
                    fieldVars, fcsRunVars, tableVars, mainVars >>

\* encode(imb), stage 4
EncModify ==
    /\ pc = "codewords"
    /\ cw' = Modify(cw, fcs)
    /\ pc' = "modified"
    /\ UNCHANGED << imb, err, imb2, err2, rc_val, fcs, char_list, bar_table,
                    enc_str, fieldVars, fcsRunVars, tableVars, mainVars >>

\* encode(imb), stage 5
EncCharacters ==
    /\ pc = "modified"
    /\ LET c == Characters(cw, fcs)
       IN  /\ char_list' = c.chars
           /\ err' = c.err
           /\ pc' = IF c.err = "" THEN "characters" ELSE "error"
    /\ UNCHANGED << imb, imb2, err2, rc_val, fcs, cw, bar_table, enc_str,
                    fieldVars, fcsRunVars, tableVars, mainVars >>

\* encode(imb), stage 6 and the return
EncBars ==
    /\ pc = "characters"
    /\ bar_table' = bar_construction_table
    /\ enc_str' = Bars(char_list, bar_construction_table)
    /\ pc' = "done"
    /\ UNCHANGED << imb, err, imb2, err2, rc_val, fcs, cw, char_list,
                    fieldVars, fcsRunVars, tableVars, mainVars >>

Next ==
    \/ Construct
    \/ RoundTrip
    \/ EncCompose
    \/ EncFcs
    \/ EncCodewords
    \/ EncModify
    \/ EncCharacters
    \/ EncBars

Spec == Init /\ [][Next]_vars

-----------------------------------------------------------------------------
(* _lookup_table(table_type, length), one pass of its loop at a time *)

InitLut ==
    /\ pc = "lut_loop"
    /\ \E call \in { <<5, Lut5Len>>, <<2, Lut2Len>> } :
            table_type = call[1] /\ length = call[2]
    /\ count = 0
    /\ lut = LutStart(length).lut
    /\ lut_lower = LutStart(length).lut_lower
    /\ lut_upper = LutStart(length).lut_upper
    /\ NoFields /\ Unset /\ NoFcsRun /\ NoMain

\* the body of the loop for the next count
LutIterate ==
    /\ pc = "lut_loop"
    /\ count < CountRange
    /\ LET st == LutBody([lut |-> lut, lut_lower |-> lut_lower,
                          lut_upper |-> lut_upper, err |-> ""],
                         table_type, count)
       IN  /\ lut' = st.lut
           /\ lut_lower' = st.lut_lower
           /\ lut_upper' = st.lut_upper
           /\ err' = st.err
           /\ pc' = IF st.err = "" THEN "lut_loop" ELSE "error"
    /\ count' = count + 1
    /\ UNCHANGED << imb, imb2, err2, rc_val, fcs, cw, char_list, bar_table,
                    enc_str, table_type, length, fieldVars, fcsRunVars, mainVars >>

\* return lut
LutReturn ==
    /\ pc = "lut_loop"
    /\ count = CountRange
    /\ pc' = "lut_done"
    /\ UNCHANGED << imb, err, imb2, err2, rc_val, fcs, cw, char_list, bar_table,
                    enc_str, fieldVars, fcsRunVars, tableVars, mainVars >>

NextLut == LutIterate \/ LutReturn

SpecLut == InitLut /\ [][NextLut]_vars

-----------------------------------------------------------------------------
(* The CRC stage of encode on a payload and on the same payload with one bit
   flipped *)

\* the payload bits the spec gives rc_val
RcValBits == 103

\* payloads are drawn with at most MaxOnes bits set, at these positions
MaxOnes == 2
SamplePositions == {0, 7, 8, 50, 95, 96, 101, RcValBits - 1}

\* the big value with exactly the bits of S set
BigOfBits(S) ==
    Normalize([k \in 1..((RcValBits + 7) \div 8) |->
        LET here == {b \in S : b \div 8 = k - 1}
            RECURSIVE Sum(_)
            Sum(T) == IF T = {} THEN 0
                      ELSE LET b == CHOOSE x \in T : TRUE
                           IN  Pow2(b % 8) + Sum(T \ {b})
        IN  Sum(here)])

PayloadSamples ==
    { BigOfBits(S) : S \in {T \in SUBSET SamplePositions : Cardinality(T) <= MaxOnes} }

\* n ^ (1 << k)
FlipBit(n, k) ==
    LET wide == [i \in 1..((RcValBits + 7) \div 8) |-> ByteAt(n, i - 1)]
    IN  Normalize([wide EXCEPT ![(k \div 8) + 1] = Xor(@, Pow2(k % 8))])

InitFcs ==
    /\ pc = "fcs_start"
    /\ rc_val \in PayloadSamples
    /\ flip_bit \in 0..(RcValBits - 1)
    /\ fcs = 0 /\ fcs_flipped = 0
    /\ imb = NoRecord /\ err = "" /\ imb2 = NoRecord /\ err2 = ""
    /\ cw = <<>> /\ char_list = <<>> /\ bar_table = <<>> /\ enc_str = <<>>
    /\ NoFields /\ NoTable /\ NoMain

\* stage 2 of encode on rc_val and on rc_val ^ (1 << flip_bit)
FcsPair ==
    /\ pc = "fcs_start"
    /\ fcs' = Fcs(rc_val)
    /\ \E flipped \in {FlipBit(rc_val, flip_bit)} : fcs_flipped' = Fcs(flipped)
    /\ pc' = "fcs_done"
    /\ UNCHANGED << imb, err, imb2, err2, rc_val, cw, char_list, bar_table,
                    enc_str, flip_bit, fieldVars, tableVars, mainVars >>

NextFcs == FcsPair

SpecFcs == InitFcs /\ [][NextFcs]_vars

-----------------------------------------------------------------------------
(* The command line: for _i in inputs *)

\* at most MaxArgs RoutingTracking arguments are given
MaxArgs == 2

ArgTrackings ==
    { Rep("0", 20),
      <<"0", "1">> \o Rep("0", 18),
      Rep("0", 5) \o <<"9">> \o Rep("0", 14) }

ArgRoutings == { <<>>, Rep("0", 5), Rep("0", 9), Rep("0", 11) }

ArgSamples ==
    { t \o z : t \in ArgTrackings, z \in ArgRoutings }
        \cup { <<"A", "D", "T", "F">>, Rep("0", 19) }

InitMain ==
    /\ pc = "main"
    /\ argv \in UNION { [1..n -> ArgSamples] : n \in 1..MaxArgs }
    /\ arg_idx = 0 /\ built = <<>> /\ printed = <<>>
    /\ NoFields /\ Unset /\ NoFcsRun /\ NoTable

decode(encstr) == <<"Not implemented">>

\* one pass of the loop body on argument i: the record built and the line
\* printed (each a list of none or one), and the exception raised
MainPass(i) ==
    IF {i[k] : k \in 1..Len(i)} = {"A", "D", "T", "F"}
    THEN [rec |-> <<>>, line |-> <<decode(i)>>, err |-> ""]
    ELSE LET r == from_t_and_r(i)
         IN  IF r.err # "" THEN [rec |-> <<>>, line |-> <<>>, err |-> r.err]
             ELSE LET e == encode(r.rec)
                  IN  IF e.err # ""
                      THEN [rec |-> <<r.rec>>, line |-> <<>>, err |-> e.err]
                      ELSE [rec |-> <<r.rec>>, line |-> <<e.out>>, err |-> ""]

\* one pass of `for _i in inputs`; an exception is not caught and ends the
\* program
MainLoop ==
    /\ pc = "main"
    /\ arg_idx < Len(argv)
    /\ \E pass \in {MainPass(argv[arg_idx + 1])} :
        /\ built' = built \o pass.rec
        /\ printed' = printed \o pass.line
        /\ err' = pass.err
        /\ pc' = IF pass.err = "" THEN "main" ELSE "error"
    /\ arg_idx' = arg_idx + 1
    /\ UNCHANGED << imb, imb2, err2, rc_val, fcs, cw, char_list, bar_table,
                    enc_str, argv, fieldVars, fcsRunVars, tableVars >>

MainExit ==
    /\ pc = "main"
    /\ arg_idx = Len(argv)
    /\ pc' = "exit"
    /\ UNCHANGED << imb, err, imb2, err2, rc_val, fcs, cw, char_list, bar_table,
                    enc_str, fieldVars, fcsRunVars, tableVars, mainVars >>

NextMain == MainLoop \/ MainExit

SpecMain == InitMain /\ [][NextMain]_vars

-----------------------------------------------------------------------------
(* Properties *)

Symbols == {"A", "D", "T", "F"}

\* a record the constructor built
Built(r) == r # NoRecord

\* a record of section 3: built, 2-digit barcode id, 3-digit service type id
ValidRecord(r) ==
    Built(r) /\ Len(r.barcode_id) = 2 /\ Len(r.service_type_id) = 3

\* C1: for every valid record (20-digit tracking) encode raises nothing and
\* returns a string of exactly 65 characters, each one of A, D, T, F.
C1_EncodeShape ==
    ValidRecord(imb) =>
        /\ pc # "error"
        /\ pc = "done" =>
            /\ Len(enc_str) = 65
            /\ \A i \in 1..Len(enc_str) : enc_str[i] \in Symbols

C1_Witness ==
    /\ pc = "done" /\ ValidRecord(imb)
    /\ Len(imb.deliv_zip) = 11 /\ Len(imb.mailer_id) = 9
    /\ Len(enc_str) = 65

HasNonDigit(f) == \E i \in 1..Len(f) : f[i] \notin DigitChars

\* the conditions C2 lists, on the constructor's arguments
C2_Listed ==
    \/ \E f \in {barcode_id, st_id, mailer_id, serial_num} :
          f = <<>> \/ HasNonDigit(f)
    \/ deliv_zip # <<>> /\ HasNonDigit(deliv_zip)
    \/ /\ \A f \in {barcode_id, st_id, mailer_id, serial_num} :
              f # <<>> /\ ~HasNonDigit(f)
       /\ \/ StrInt(barcode_id) > 99
          \/ StrInt(barcode_id) % 10 \notin 0..4
          \/ StrInt(st_id) > 999
          \/ Len(mailer_id) \notin {6, 9}
          \/ Len(serial_num) \notin {6, 9}
          \/ Len(mailer_id) = Len(serial_num)
          \/ /\ Len(mailer_id) = 9
             /\ StrInt(mailer_id) \notin 900000000..999999999
          \/ Len(deliv_zip) \notin {0, 5, 9, 11}

\* C2: whenever one of the listed conditions holds of the arguments, the
\* constructor raises and no record exists.
C2_Rejects ==
    (pc # "start" /\ C2_Listed) => (pc = "error" /\ err # "" /\ imb = NoRecord)

\* the scenario of a 7-digit delivery zip with every other field in order
C2_Witness ==
    /\ pc = "error" /\ imb = NoRecord
    /\ barcode_id = <<"0", "0">> /\ st_id = Rep("0", 3)
    /\ mailer_id = Rep("0", 6) /\ serial_num = Rep("0", 9)
    /\ Len(deliv_zip) = 7

\* C3: every record the constructor accepts has a 2-digit barcode id and a
\* 3-digit service type id, so that its tracking is exactly 20 digits long.
C3_Tracking20 ==
    Built(imb) =>
        /\ Len(imb.barcode_id) = 2
        /\ Len(imb.service_type_id) = 3
        /\ Len(tracking(imb)) = 20

\* C4: for every record the constructor accepts, from_t_and_r of its tracking
\* followed by its routing succeeds and returns a record equal to it field by
\* field.
C4_LeftInverse ==
    pc = "round_trip" =>
        /\ err2 = ""
        /\ imb2.barcode_id = imb.barcode_id
        /\ imb2.service_type_id = imb.service_type_id
        /\ imb2.mailer_id = imb.mailer_id
        /\ imb2.serial_num = imb.serial_num
        /\ imb2.deliv_zip = imb.deliv_zip

\* C5: for every record the constructor accepts, the assertion on codeword A
\* never fires, and after the modification step all ten codewords lie in
\* 0..1364, so the 'codeword > 1364' branch is never taken.
C5_NoInternalFailure ==
    Built(imb) =>
        /\ pc # "error"
        /\ pc = "codewords" => cw[1] \in 0..658
        /\ pc \in {"modified", "characters", "done"} =>
              \A i \in 1..Len(cw) : cw[i] \in 0..1364

\* the 13-bit reversal of v, bit i going to bit 12 - i
RECURSIVE ReverseBits(_, _)
ReverseBits(v, n) ==
    IF n = 0 THEN 0 ELSE (v % 2) * 2 ^ (n - 1) + ReverseBits(v \div 2, n - 1)

Rev13(v) == ReverseBits(v, 13)

\* C6: _lookup_table(5, 1287) and _lookup_table(2, 78) raise nothing and
\* return tables of exactly 1287 and 78 entries, each below 2^13 with exactly
\* 5 (2) bits set, pairwise distinct, no value in both tables.  Every slot is
\* written exactly once: the slots the two cursors point at are still 0 as
\* long as the cursors have not met, the cursors meet at the end, and no
\* slot keeps its initial 0.
C6_Tables ==
    /\ pc # "error"
    /\ (pc = "lut_loop" /\ lut_lower <= lut_upper) =>
          lut[lut_lower + 1] = 0 /\ lut[lut_upper + 1] = 0
    /\ pc = "lut_done" =>
        /\ Len(lut) = (IF table_type = 5 THEN 1287 ELSE 78)
        /\ \A i \in 1..Len(lut) :
              lut[i] # 0 /\ lut[i] < 2 ^ 13 /\ PopCount(lut[i]) = table_type
        /\ \A i \in 1..Len(lut) : \A j \in (i + 1)..Len(lut) : lut[i] # lut[j]
        /\ lut_lower = lut_upper + 1
        /\ LET other == IF table_type = 5 THEN lut2 ELSE lut5
           IN  \A i \in 1..Len(lut) : \A j \in 1..Len(other) : lut[i] # other[j]

C6_Witness == pc = "lut_done" /\ table_type = 5 /\ Len(lut) = 1287 /\ lut[1287] # 0

\* C7: in both tables the entries that differ from their 13-bit reversal fill
\* the front in adjacent pairs (value at the even index 2k, its reversal at
\* 2k+1, filled forward from index 0), and the entries equal to their
\* reversal form a contiguous block at the end (filled backward from the last
\* index); no self-reciprocal value comes before that block.
C7_PairsThenTail ==
    /\ pc # "error"
    /\ (pc = "lut_loop" /\ lut_lower >= 2) =>
          /\ lut_lower % 2 = 0
          /\ lut[lut_lower - 1] # Rev13(lut[lut_lower - 1])
          /\ lut[lut_lower] = Rev13(lut[lut_lower - 1])
    /\ (pc = "lut_loop" /\ lut_upper + 2 <= Len(lut)) =>
          lut[lut_upper + 2] # 0 /\ lut[lut_upper + 2] = Rev13(lut[lut_upper + 2])
    /\ pc = "lut_done" =>
        \E b \in 0..Len(lut) :
            /\ b % 2 = 0
            /\ \A i \in 1..b :
                  /\ lut[i] # Rev13(lut[i])
                  /\ i % 2 = 1 => lut[i + 1] = Rev13(lut[i])
            /\ \A i \in (b + 1)..Len(lut) : lut[i] = Rev13(lut[i])

C7_Witness ==
    /\ pc = "lut_done" /\ table_type = 2
    /\ lut[1] # Rev13(lut[1]) /\ lut[2] = Rev13(lut[1])
    /\ lut[Len(lut)] = Rev13(lut[Len(lut)])

\* the payload bits the CRC stage reads: 6, then 12 bytes of 8
FcsBitsRead == 6 + 12 * 8

\* C8 as stated: for every rc_val below 2^103 and every bit k in 0..102 the
\* FCS of rc_val differs from the FCS of rc_val with bit k flipped.
C8_EveryBit == pc = "fcs_done" => fcs # fcs_flipped

\* C8 as amended: the FCS differs for every bit k in 0..101; bit 102 is not
\* read by the CRC stage, and flipping it leaves the FCS unchanged.
C8_BitsRead ==
    pc = "fcs_done" =>
        /\ flip_bit < FcsBitsRead => fcs # fcs_flipped
        /\ flip_bit >= FcsBitsRead => fcs = fcs_flipped

C8_Witness ==
    /\ pc = "fcs_done" /\ flip_bit = FcsBitsRead - 1
    /\ rc_val # BigZero /\ fcs # fcs_flipped

\* the (character, bit) pairs the parsed table refers to
BarRefs(table) ==
    { <<CharIndex(table[i].desc_char), StrInt(table[i].desc_bit)>> :
          i \in 1..Len(table) }
    \cup { <<CharIndex(table[i].asc_char), StrInt(table[i].asc_bit)>> :
          i \in 1..Len(table) }

\* C9: the 65 descender and 65 ascender references of the bar construction
\* table are pairwise distinct and cover every (character, bit) pair with
\* character in A..J and bit in 0..12 exactly once.
C9_BarBijection ==
    pc = "done" =>
        /\ Len(bar_table) = 65
        /\ BarRefs(bar_table) = (0..9) \X (0..12)
        /\ Cardinality(BarRefs(bar_table)) = 2 * Len(bar_table)

C9_Witness ==
    pc = "done" /\ Len(bar_table) = 65 /\ <<9, 12>> \in BarRefs(bar_table)

\* the lines printed by the encode branch, in order
Encodings == SelectSeq(printed, LAMBDA l : l # decode(<<>>))

\* C10: two valid records that differ in some field never encode to the same
\* string.
C10_Injective ==
    \A i, j \in 1..Len(Encodings) :
        (/\ ValidRecord(built[i]) /\ ValidRecord(built[j])
         /\ built[i] # built[j])
            => Encodings[i] # Encodings[j]

\* two records that differ only in the routing, none against five zeros
C10_Witness ==
    /\ pc = "exit" /\ Len(built) = 2 /\ Len(Encodings) = 2
    /\ tracking(built[1]) = tracking(built[2])
    /\ built[1].deliv_zip = <<>> /\ built[2].deliv_zip = Rep("0", 5)
    /\ Encodings[1] # Encodings[2]

=============================================================================
